---- MODULE Spec2Model ----
(***************************************************************************)
(* Model of roller (wavefnx/roller): the Tui state (src/src/tui.rs), the   *)
(* payload deserialization (src/src/network.rs) and the main event loop    *)
(* (src/src/main.rs).                                                      *)
(*                                                                         *)
(* f32 values are modelled as pairs <<"num", tenths>> or <<"nan", 0>>;     *)
(* comparisons follow IEEE-754 (every comparison with NaN is false).       *)
(* JSON values of a payload are pairs <<kind, text>> with kind one of      *)
(* "missing", "num" (a JSON number) and "str" (a JSON string).             *)
(***************************************************************************)
EXTENDS Integers, Sequences, FiniteSets, TLC

\* Largest number of networks the metadata fetch returns in the model.
MaxNetworks == 3

VARIABLES
    networks,          \* Tui.networks: Vec<Network>
    selected,          \* Tui.selected.selected(): always Some(index) here
    sorting_strategy,  \* Tui.sorting_strategy
    pc,                \* position of main: "read", "update", "render", "poll", "exit", "done"
    event,             \* the value bound by `while let Ok(event)` in this iteration
    result,            \* what main returned: "none" while running, "Ok", "Err"
    loaded,            \* history: the Vec<Network> handed to Tui::new
    seen,              \* history: labels of the networks a matching event was applied to
    quit_pressed       \* input source: a 'q' key event is the next one event::read() returns

vars ==
    <<networks, selected, sorting_strategy, pc, event, result, loaded, seen, quit_pressed>>

----------------------------------------------------------------------------
(* f32 *)

NaN == <<"nan", 0>>

Num(tenths) == <<"num", tenths>>

IsNaN(x) == x[1] = "nan"

\* IEEE-754 `a >= b`
F32Ge(a, b) == ~IsNaN(a) /\ ~IsNaN(b) /\ a[2] >= b[2]

\* IEEE-754 `a == b`
F32Eq(a, b) == ~IsNaN(a) /\ ~IsNaN(b) /\ a[2] = b[2]

\* f32::partial_cmp: "None" when either side is NaN
PartialCmp(a, b) ==
    IF IsNaN(a) \/ IsNaN(b) THEN "None"
    ELSE IF a[2] < b[2] THEN "Less"
    ELSE IF a[2] > b[2] THEN "Greater"
    ELSE "Equal"

----------------------------------------------------------------------------
(* network.rs: Data and its deserialization *)

\* Option<Data>::None
None == [some |-> FALSE, block_number |-> 0, tps |-> Num(0), gps |-> Num(0), dps |-> Num(0)]

Some(bn, t, g, d) == [some |-> TRUE, block_number |-> bn, tps |-> t, gps |-> g, dps |-> d]

\* Data::default(): every field zero
DataDefault == [block_number |-> 0, tps |-> Num(0), gps |-> Num(0), dps |-> Num(0)]

Missing == <<"missing", "">>

JNum(text) == <<"num", text>>

JStr(text) == <<"str", text>>

\* str::parse::<f32>() on the text of a JSON string: "Err" when it is no float literal
StrParseF32(text) ==
    CASE text = "1.5" -> Num(15)
      [] text = "1.50" -> Num(15)
      [] text = "3.2" -> Num(32)
      [] text = "0.1" -> Num(1)
      [] text = "0" -> Num(0)
      [] text = "-1.5" -> Num(-15)
      [] text = "NaN" -> NaN
      [] OTHER -> <<"err", 0>>

\* deserialize_string_to_f32: Err unless the JSON value is a string; a string that does
\* not parse gives f32::default()
deserialize_string_to_f32(v) ==
    IF v[1] # "str" THEN <<"err", 0>>
    ELSE IF StrParseF32(v[2])[1] = "err" THEN Num(0)
    ELSE StrParseF32(v[2])

\* serde's u64 from a JSON value: only a non-negative integer number is accepted
DeserializeU64(v) ==
    IF v[1] # "num" THEN <<"err", 0>>
    ELSE CASE v[2] = "10" -> <<"num", 10>>
           [] v[2] = "11" -> <<"num", 11>>
           [] v[2] = "0" -> <<"num", 0>>
           [] OTHER -> <<"err", 0>>

\* serde_json::from_str::<Option<Data>>(&event.data): Err, or Ok(value)
FromStr(raw) ==
    IF raw.json = "invalid" THEN [ok |-> FALSE, value |-> None]
    ELSE IF raw.json = "null" THEN [ok |-> TRUE, value |-> None]
    ELSE IF \/ DeserializeU64(raw.blockNumber)[1] = "err"
            \/ deserialize_string_to_f32(raw.tps)[1] = "err"
            \/ deserialize_string_to_f32(raw.gps)[1] = "err"
            \/ deserialize_string_to_f32(raw.dps)[1] = "err"
         THEN [ok |-> FALSE, value |-> None]
    ELSE [ok |-> TRUE,
          value |-> Some(DeserializeU64(raw.blockNumber)[2],
                         deserialize_string_to_f32(raw.tps),
                         deserialize_string_to_f32(raw.gps),
                         deserialize_string_to_f32(raw.dps))]

\* Result<Option<Data>>::unwrap_or_default(): Option<Data>::default() is None
UnwrapOrDefault(res) == IF res.ok THEN res.value ELSE None

\* Mutant of update_data: a field-level merge that keeps the block height of Metrics
\* already present
update_data_KeepBlockNumber(network, data) ==
    IF network.data.some /\ data.some
    THEN [network EXCEPT !.data = [data EXCEPT !.block_number = network.data.block_number]]
    ELSE [network EXCEPT !.data = data]

\* network.rs, Network::update_data
update_data(network, data) == [network EXCEPT !.data = data]

----------------------------------------------------------------------------
(* Payloads the stream delivers in the model (the text of event.data) *)

Object(bn, t, g, d) == [json |-> "object", blockNumber |-> bn, tps |-> t, gps |-> g, dps |-> d]

\* {"blockNumber":10,"tps":"1.5","gps":"3.2","dps":"0.1"}
PayloadA == Object(JNum("10"), JStr("1.5"), JStr("3.2"), JStr("0.1"))

\* {"blockNumber":11,"tps":"3.2","gps":"1.50","dps":"0.1"}
PayloadB == Object(JNum("11"), JStr("3.2"), JStr("1.50"), JStr("0.1"))

\* {"blockNumber":10,"tps":"1.5","gps":"3.2","dps":"abc"}
PayloadMalformedDps == Object(JNum("10"), JStr("1.5"), JStr("3.2"), JStr("abc"))

\* {"blockNumber":10,"tps":"1.5","gps":"3.2"}
PayloadMissingDps == Object(JNum("10"), JStr("1.5"), JStr("3.2"), Missing)

\* {"blockNumber":11,"tps":"1.5","gps":"NaN","dps":"0.1"}
PayloadNaNGps == Object(JNum("11"), JStr("1.5"), JStr("NaN"), JStr("0.1"))

\* {"blockNumber":11,"tps":"0.1","gps":"-1.5","dps":"0"}
PayloadNegativeGps == Object(JNum("11"), JStr("0.1"), JStr("-1.5"), JStr("0"))

\* {"blockNumber":10,"tps":1.5,"gps":"3.2","dps":"0.1"}: tps is a number, not a string
PayloadNumberTps == Object(JNum("10"), JNum("1.5"), JStr("3.2"), JStr("0.1"))

\* null
PayloadNull == [json |-> "null", blockNumber |-> Missing, tps |-> Missing, gps |-> Missing, dps |-> Missing]

\* text that is no JSON
PayloadInvalid == [json |-> "invalid", blockNumber |-> Missing, tps |-> Missing, gps |-> Missing, dps |-> Missing]

Payloads ==
    {PayloadA, PayloadB, PayloadMalformedDps, PayloadMissingDps, PayloadNaNGps,
     PayloadNegativeGps, PayloadNumberTps, PayloadNull, PayloadInvalid}

\* Payloads whose four fields all have the JSON type and the syntax Data expects
WellFormed(raw) ==
    /\ raw.json = "object"
    /\ DeserializeU64(raw.blockNumber)[1] = "num"
    /\ \A v \in {raw.tps, raw.gps, raw.dps} : v[1] = "str" /\ StrParseF32(v[2])[1] # "err"

\* Network names of the metadata, and the event types of the stream ("C" names no network)
Names == {"A", "B"}

EventTypes == {"A", "B", "C"}

----------------------------------------------------------------------------
(* tui.rs *)

Strategies == {"Gps", "Tps", "Dps"}

\* the (a, b) selection of sort_networks' `match self.sorting_strategy`
Metric(data, strategy) ==
    CASE strategy = "Gps" -> data.gps
      [] strategy = "Tps" -> data.tps
      [] strategy = "Dps" -> data.dps

\* a.data.as_ref().unwrap_or(&default) followed by the strategy's field
SortKey(network, strategy) ==
    IF network.data.some THEN Metric(network.data, strategy) ELSE Metric(DataDefault, strategy)

\* the closure of sort_by: b.partial_cmp(&a).unwrap_or(Ordering::Equal)
Compare(x, y, strategy) ==
    IF PartialCmp(SortKey(y, strategy), SortKey(x, strategy)) = "None" THEN "Equal"
    ELSE PartialCmp(SortKey(y, strategy), SortKey(x, strategy))

\* Mutant of IsLess: `compare(a, b) != Greater`, which moves an element past its equals
IsLess_NonStrict(x, y, strategy) == Compare(x, y, strategy) # "Greater"

\* slice::sort_by's is_less: compare(a, b) == Less
IsLess(x, y, strategy) == Compare(x, y, strategy) = "Less"

RECURSIVE InsertTail(_, _, _)
\* slice::sort_by on a short slice is an insertion sort; this inserts x into the sorted
\* prefix s, shifting right every element x is less than
InsertTail(s, x, strategy) ==
    IF s = <<>> THEN <<x>>
    ELSE IF IsLess(x, s[Len(s)], strategy)
         THEN Append(InsertTail(SubSeq(s, 1, Len(s) - 1), x, strategy), s[Len(s)])
         ELSE Append(s, x)

RECURSIVE SortPrefix(_, _, _)
SortPrefix(s, n, strategy) ==
    IF n = 0 THEN <<>>
    ELSE InsertTail(SortPrefix(s, n - 1, strategy), s[n], strategy)

\* Tui::sort_networks
sort_networks(nets, strategy) == SortPrefix(nets, Len(nets), strategy)

\* Mutant of Find: the last match instead of the first
Find_Last(nets, event_type) ==
    IF \E i \in 1..Len(nets) : nets[i].name = event_type
    THEN CHOOSE i \in 1..Len(nets) :
            /\ nets[i].name = event_type
            /\ \A j \in (i + 1)..Len(nets) : nets[j].name # event_type
    ELSE 0

\* iter_mut().find(|n| n.name == event.event_type): index of the first match, 0 for None
Find(nets, event_type) ==
    IF \E i \in 1..Len(nets) : nets[i].name = event_type
    THEN CHOOSE i \in 1..Len(nets) :
            /\ nets[i].name = event_type
            /\ \A j \in 1..(i - 1) : nets[j].name # event_type
    ELSE 0

\* Mutant of FindAndUpdate: an event that matches no network inserts one
FindAndUpdate_InsertUnknown(nets, ev) ==
    IF Find(nets, ev.event_type) = 0
    THEN Append(nets, [name |-> ev.event_type, label |-> Len(nets) + 1,
                       data |-> UnwrapOrDefault(FromStr(ev.data))])
    ELSE [nets EXCEPT ![Find(nets, ev.event_type)] =
             update_data(@, UnwrapOrDefault(FromStr(ev.data)))]

\* Mutant of FindAndUpdate: an event that matches no network is applied to the first one
FindAndUpdate_FallbackFirst(nets, ev) ==
    IF Find(nets, ev.event_type) = 0
    THEN IF nets = <<>> THEN nets
         ELSE [nets EXCEPT ![1] = update_data(@, UnwrapOrDefault(FromStr(ev.data)))]
    ELSE [nets EXCEPT ![Find(nets, ev.event_type)] =
             update_data(@, UnwrapOrDefault(FromStr(ev.data)))]

\* Tui::update_networks up to the call of sort_networks
FindAndUpdate(nets, ev) ==
    IF Find(nets, ev.event_type) = 0 THEN nets
    ELSE [nets EXCEPT ![Find(nets, ev.event_type)] =
             update_data(@, UnwrapOrDefault(FromStr(ev.data)))]

\* Tui::update_networks
update_networks(nets, strategy, ev) == sort_networks(FindAndUpdate(nets, ev), strategy)

SaturatingSub(x, y) == IF x >= y THEN x - y ELSE 0

Min(x, y) == IF x <= y THEN x ELSE y

Max(x, y) == IF x >= y THEN x ELSE y

\* handle_input: self.networks.len().saturating_sub(1)
NetworkSize(nets) == SaturatingSub(Len(nets), 1)

\* Mutant of MoveUp: wraps from the first row to the last
MoveUp_Wrap(current, nets) ==
    IF current = 0 THEN NetworkSize(nets) ELSE Min(current - 1, NetworkSize(nets))

\* handle_input, KeyCode::Up
MoveUp(current, nets) == Min(SaturatingSub(current, 1), NetworkSize(nets))

\* Mutant of MoveDown: no clamp to the last row
MoveDown_Unclamped(current, nets) == current + 1

\* handle_input, KeyCode::Down
MoveDown(current, nets) == Min(current + 1, NetworkSize(nets))

\* handle_input, KeyCode::Char('g' | 't' | 'k'): the strategy the key selects
StrategyOf(key) ==
    CASE key = "g" -> "Gps"
      [] key = "t" -> "Tps"
      [] key = "k" -> "Dps"

\* Keys the input source delivers: arrows, the sort keys, quit and one unbound key
Keys == {"Up", "Down", "g", "t", "k", "q", "x"}

----------------------------------------------------------------------------
(* main.rs: the state after Tui::new and the event loop *)

\* One Network of the metadata: name and label, data: None. Labels are pairwise distinct
\* in the model (the position in the fetched Vec) and tell the networks apart.
Fetched(names) == [i \in 1..Len(names) |-> [name |-> names[i], label |-> i, data |-> None]]

\* The Vecs get_networks returns in the model: up to MaxNetworks networks, names possibly
\* repeated, those named "A" first
InitialLoads ==
    {Fetched(names) : names \in
        {ns \in UNION {[1..n -> Names] : n \in 0..MaxNetworks} :
            /\ Len(ns) = 0 \/ ns[1] = "A"
            /\ \A i \in 1..(Len(ns) - 1) : ns[i] = "B" => ns[i + 1] = "B"}}

\* No stream item bound: before the first read and between iterations
NoEvent == [kind |-> "none", event_type |-> "", data |-> PayloadInvalid]

\* Ok(Some(SSE::Event(e)))
SSEEvent(event_type, data) == [kind |-> "event", event_type |-> event_type, data |-> data]

\* Ok(Some(SSE::Comment(_)))
SSEComment == [kind |-> "comment", event_type |-> "", data |-> PayloadInvalid]

\* Ok(None): the stream has ended
EndOfStream == [kind |-> "end", event_type |-> "", data |-> PayloadInvalid]

\* Err(_): the stream read failed
StreamErr == [kind |-> "err", event_type |-> "", data |-> PayloadInvalid]

Init ==
    /\ loaded \in InitialLoads
    /\ networks = loaded
    /\ selected = 0
    /\ sorting_strategy = "Gps"
    /\ pc = "read"
    /\ event = NoEvent
    /\ result = "none"
    /\ seen = {}
    /\ quit_pressed = FALSE

\* stream.try_next() yields Ok(Some(SSE::Event(e))): the `if let` body runs
StreamEvent ==
    /\ pc = "read"
    /\ \E t \in EventTypes, d \in Payloads : event' = SSEEvent(t, d)
    /\ pc' = "update"
    /\ UNCHANGED <<networks, selected, sorting_strategy, result, loaded, seen, quit_pressed>>

\* Mutant of StreamComment: a comment is followed by a redraw
StreamComment_Renders ==
    /\ pc = "read"
    /\ event' = SSEComment
    /\ pc' = "render"
    /\ UNCHANGED <<networks, selected, sorting_strategy, result, loaded, seen, quit_pressed>>

\* stream.try_next() yields Ok(Some(SSE::Comment(_))): the `if let` does not match
StreamComment ==
    /\ pc = "read"
    /\ event' = SSEComment
    /\ pc' = "poll"
    /\ UNCHANGED <<networks, selected, sorting_strategy, result, loaded, seen, quit_pressed>>

\* stream.try_next() yields Ok(None): `while let Ok(event)` matches, the `if let` does not
StreamEnd ==
    /\ pc = "read"
    /\ event' = EndOfStream
    /\ pc' = "poll"
    /\ UNCHANGED <<networks, selected, sorting_strategy, result, loaded, seen, quit_pressed>>

\* stream.try_next() yields Err(_): `while let Ok(event)` fails and the loop is left
StreamError ==
    /\ pc = "read"
    /\ event' = StreamErr
    /\ pc' = "exit"
    /\ UNCHANGED <<networks, selected, sorting_strategy, result, loaded, seen, quit_pressed>>

\* tui.update_networks(event)
UpdateNetworks ==
    /\ pc = "update"
    /\ networks' = update_networks(networks, sorting_strategy, event)
    /\ seen' = IF Find(networks, event.event_type) = 0 THEN seen
               ELSE seen \cup {networks[Find(networks, event.event_type)].label}
    /\ pc' = "render"
    /\ UNCHANGED <<selected, sorting_strategy, event, result, loaded, quit_pressed>>

\* Mutant of Render: drawing moves the selection back to the first row
Render_ResetsSelection ==
    /\ pc = "render"
    /\ pc' = "poll"
    /\ selected' = 0
    /\ UNCHANGED <<networks, sorting_strategy, event, result, loaded, seen, quit_pressed>>

\* terminal.draw(|f| tui.render(f)) returns Ok
Render ==
    /\ pc = "render"
    /\ pc' = "poll"
    /\ UNCHANGED <<networks, selected, sorting_strategy, event, result, loaded, seen, quit_pressed>>

\* terminal.draw(...)? returns Err: main returns it
RenderFail ==
    /\ pc = "render"
    /\ pc' = "done"
    /\ result' = "Err"
    /\ UNCHANGED <<networks, selected, sorting_strategy, event, loaded, seen, quit_pressed>>

\* poll(interval) is false, or event::read() is no key event: next iteration
PollNoKey ==
    /\ pc = "poll"
    /\ ~quit_pressed
    /\ pc' = "read"
    /\ event' = NoEvent
    /\ UNCHANGED <<networks, selected, sorting_strategy, result, loaded, seen, quit_pressed>>

\* poll(...)? or event::read()? returns Err: main returns it
PollFail ==
    /\ pc = "poll"
    /\ pc' = "done"
    /\ result' = "Err"
    /\ UNCHANGED <<networks, selected, sorting_strategy, event, loaded, seen, quit_pressed>>

\* Mutant of PollQuit: the quit key is consumed and the loop goes on
PollQuit_Ignored ==
    /\ pc = "poll"
    /\ pc' = "read"
    /\ event' = NoEvent
    /\ quit_pressed' = FALSE
    /\ UNCHANGED <<networks, selected, sorting_strategy, result, loaded, seen>>

\* KeyCode::Char('q') => break
PollQuit ==
    /\ pc = "poll"
    /\ pc' = "exit"
    /\ quit_pressed' = FALSE
    /\ UNCHANGED <<networks, selected, sorting_strategy, event, result, loaded, seen>>

\* Mutant of handle_input: a strategy key also moves the selection to the first row
handle_input_ResetCursor(key) ==
    CASE key = "Up" ->
            /\ selected' = MoveUp(selected, networks)
            /\ UNCHANGED <<networks, sorting_strategy>>
      [] key = "Down" ->
            /\ selected' = MoveDown(selected, networks)
            /\ UNCHANGED <<networks, sorting_strategy>>
      [] key \in {"g", "t", "k"} ->
            /\ sorting_strategy' = StrategyOf(key)
            /\ networks' = sort_networks(networks, StrategyOf(key))
            /\ selected' = 0
      [] OTHER -> UNCHANGED <<networks, selected, sorting_strategy>>

\* Mutant of handle_input: an unbound key switches back to the default strategy
handle_input_OtherKeyResets(key) ==
    CASE key = "Up" ->
            /\ selected' = MoveUp(selected, networks)
            /\ UNCHANGED <<networks, sorting_strategy>>
      [] key = "Down" ->
            /\ selected' = MoveDown(selected, networks)
            /\ UNCHANGED <<networks, sorting_strategy>>
      [] key \in {"g", "t", "k"} ->
            /\ sorting_strategy' = StrategyOf(key)
            /\ networks' = sort_networks(networks, StrategyOf(key))
            /\ UNCHANGED selected
      [] OTHER ->
            /\ sorting_strategy' = "Gps"
            /\ networks' = sort_networks(networks, "Gps")
            /\ UNCHANGED selected

\* Tui::handle_input(key)
handle_input(key) ==
    CASE key = "Up" ->
            /\ selected' = MoveUp(selected, networks)
            /\ UNCHANGED <<networks, sorting_strategy>>
      [] key = "Down" ->
            /\ selected' = MoveDown(selected, networks)
            /\ UNCHANGED <<networks, sorting_strategy>>
      [] key \in {"g", "t", "k"} ->
            /\ sorting_strategy' = StrategyOf(key)
            /\ networks' = sort_networks(networks, StrategyOf(key))
            /\ UNCHANGED selected
      [] OTHER -> UNCHANGED <<networks, selected, sorting_strategy>>

\* _ => tui.handle_input(key.code), then the next iteration
PollKey(key) ==
    /\ pc = "poll"
    /\ ~quit_pressed
    /\ handle_input(key)
    /\ pc' = "read"
    /\ event' = NoEvent
    /\ UNCHANGED <<result, loaded, seen, quit_pressed>>

\* Mutant of TerminalExit: the loop is entered again after it was left
TerminalExit_Reenter ==
    /\ pc = "exit"
    /\ pc' = "read"
    /\ event' = NoEvent
    /\ UNCHANGED <<networks, selected, sorting_strategy, result, loaded, seen, quit_pressed>>

\* terminal.exit()? returns Ok, main returns Ok(())
TerminalExit ==
    /\ pc = "exit"
    /\ pc' = "done"
    /\ result' = "Ok"
    /\ UNCHANGED <<networks, selected, sorting_strategy, event, loaded, seen, quit_pressed>>

\* terminal.exit()? returns Err: main returns it
TerminalExitFail ==
    /\ pc = "exit"
    /\ pc' = "done"
    /\ result' = "Err"
    /\ UNCHANGED <<networks, selected, sorting_strategy, event, loaded, seen, quit_pressed>>

Next ==
    \/ StreamEvent
    \/ StreamComment
    \/ StreamEnd
    \/ StreamError
    \/ UpdateNetworks
    \/ Render
    \/ RenderFail
    \/ PollNoKey
    \/ PollFail
    \/ PollQuit
    \/ \E key \in Keys \ {"q"} : PollKey(key)
    \/ TerminalExit
    \/ TerminalExitFail

Spec == Init /\ [][Next]_vars

\* Largest number of networks in the specification of the pressed quit key.
MaxLiveNetworks == 1

InitLive == Init /\ Len(loaded) <= MaxLiveNetworks

\* The user presses 'q' while the loop runs: the key waits in the input source until
\* event::read() returns it
PressQuit ==
    /\ pc \in {"read", "update", "render", "poll"}
    /\ ~quit_pressed
    /\ quit_pressed' = TRUE
    /\ UNCHANGED <<networks, selected, sorting_strategy, pc, event, result, loaded, seen>>

NextLive == Next \/ PressQuit

\* stream.try_next().await returns
StreamRead == StreamEvent \/ StreamComment \/ StreamEnd \/ StreamError

\* poll(interval) returns within the interval, and the key (if any) is handled
PollInput == PollNoKey \/ PollFail \/ PollQuit \/ \E key \in Keys \ {"q"} : PollKey(key)

\* The loop with a pressed quit key: the single thread always takes its next step, and
\* the stream read returns (weak fairness on stream delivery)
LiveSpec ==
    /\ InitLive
    /\ [][NextLive]_vars
    /\ WF_vars(StreamRead)
    /\ WF_vars(UpdateNetworks)
    /\ WF_vars(Render \/ RenderFail)
    /\ WF_vars(PollInput)
    /\ WF_vars(TerminalExit \/ TerminalExitFail)

TypeOK ==
    /\ pc \in {"read", "update", "render", "poll", "exit", "done"}
    /\ sorting_strategy \in Strategies
    /\ selected \in Nat
    /\ result \in {"none", "Ok", "Err"}
    /\ event.kind \in {"none", "event", "comment", "end", "err"}

----------------------------------------------------------------------------
(* Helpers of the properties *)

\* The labels of a Vec<Network>
Labels(nets) == {nets[i].label : i \in 1..Len(nets)}

\* Position of the network with the given label
PosOf(nets, label) == CHOOSE i \in 1..Len(nets) : nets[i].label = label

\* Option<Data> of the network with the given label
DataOf(nets, label) == nets[PosOf(nets, label)].data

\* Some network has Metrics
SomeData(nets) == \E i \in 1..Len(nets) : nets[i].data.some

\* The step is a call of update_networks whose event matches a network
MatchingUpdate == pc = "update" /\ pc' = "render" /\ Find(networks, event.event_type) # 0

\* The step is a call of update_networks whose event matches no network
UnknownUpdate == pc = "update" /\ pc' = "render" /\ Find(networks, event.event_type) = 0

\* Label of the network the event of a matching update is applied to
Target == networks[Find(networks, event.event_type)].label

\* What the documents of the payloads say, field by field
ValuesOf(raw) ==
    CASE raw = PayloadA -> Some(10, Num(15), Num(32), Num(1))
      [] raw = PayloadB -> Some(11, Num(32), Num(15), Num(1))
      [] raw = PayloadNaNGps -> Some(11, Num(15), NaN, Num(1))
      [] raw = PayloadNegativeGps -> Some(11, Num(1), Num(-15), Num(0))

----------------------------------------------------------------------------
(* Properties *)

\* C1: once the stream read has yielded end-of-stream or an error, the loop is over:
\* main is at terminal.exit() or has returned, so no input poll, read, update or render
\* follows. (The code polls the input and reads again after end-of-stream.)
C1_StreamEndOrErrorEndsLoop ==
    event.kind \in {"end", "err"} => pc \in {"exit", "done"}

\* C2: in every state the registry has as many entities as the initial load, the same
\* set of identifiers, and every entity (told apart by its label) its initial identifier.
C2_IdentifierSetFixed ==
    /\ Len(networks) = Len(loaded)
    /\ {networks[i].name : i \in 1..Len(networks)} = {loaded[i].name : i \in 1..Len(loaded)}
    /\ {<<networks[i].label, networks[i].name>> : i \in 1..Len(networks)}
         = {<<loaded[i].label, loaded[i].name>> : i \in 1..Len(loaded)}

\* C2 witness: an update with an unknown identifier has been applied to a registry of two
\* or more entities that earlier took matching updates and a strategy key.
C2_Witness ==
    /\ pc = "render"
    /\ event.event_type = "C"
    /\ Len(networks) >= 2
    /\ SomeData(networks)
    /\ sorting_strategy # "Gps"
    /\ networks # loaded

\* C3: the registry is in descending order of the active strategy's metric, absent
\* Metrics counting as 0.0: every adjacent pair satisfies metric(i) >= metric(i+1).
\* (A metric parsed from "NaN" breaks it.)
C3_SortedDescending ==
    \A i \in 1..(Len(networks) - 1) :
        F32Ge(SortKey(networks[i], sorting_strategy), SortKey(networks[i + 1], sorting_strategy))

\* C4: an update whose identifier matches no entity leaves the whole sequence (every
\* entity's Metrics and the order) unchanged and main goes on to render, with no error.
C4_UnknownIdentifierNoOp ==
    [][UnknownUpdate => (networks' = networks /\ result' = "none" /\ pc' = "render")]_vars

\* C4 witness: an unknown-identifier update was applied to a registry with Metrics present
\* and not in load order.
C4_Witness ==
    /\ pc = "render"
    /\ event.kind = "event"
    /\ Find(networks, event.event_type) = 0
    /\ Len(networks) >= 2
    /\ SomeData(networks)
    /\ networks[1].label # 1
    /\ result = "none"

\* C5: a matching update with a well-formed payload sets the entity's Metrics to exactly
\* the payload's four values and leaves every other entity's Metrics unchanged; and
\* Example A: [A, B] with no Metrics under Gps, update(B, PayloadA) gives
\* B.metrics = {10, 1.5, 3.2, 0.1} and the order [B, A].
C5_WholesaleReplace ==
    [][/\ (MatchingUpdate /\ WellFormed(event.data)) =>
            /\ DataOf(networks', Target) = ValuesOf(event.data)
            /\ \A l \in Labels(networks) \ {Target} : DataOf(networks', l) = DataOf(networks, l)
       /\ (/\ pc = "update"
           /\ pc' = "render"
           /\ networks = Fetched(<<"A", "B">>)
           /\ sorting_strategy = "Gps"
           /\ event = SSEEvent("B", PayloadA)) =>
            networks' = << [name |-> "B", label |-> 2,
                            data |-> Some(10, Num(15), Num(32), Num(1))],
                           [name |-> "A", label |-> 1, data |-> None] >>
      ]_vars

\* C5 witness: a well-formed update has replaced Metrics that were present with other
\* values while another entity has Metrics too.
C5_Witness ==
    /\ pc = "render"
    /\ event.kind = "event"
    /\ WellFormed(event.data)
    /\ \E i, j \in 1..Len(networks) :
          /\ i # j
          /\ networks[i].name = event.event_type
          /\ networks[i].data = ValuesOf(event.data)
          /\ networks[j].data.some
          /\ networks[j].data # networks[i].data

\* C5 witness of Example A: the state Example A ends in.
C5_ExampleA_Reached ==
    /\ pc = "render"
    /\ event = SSEEvent("B", PayloadA)
    /\ seen = {2}
    /\ networks = << [name |-> "B", label |-> 2, data |-> Some(10, Num(15), Num(32), Num(1))],
                     [name |-> "A", label |-> 1, data |-> None] >>

\* Payloads that are JSON objects with a well-formed blockNumber in which tps, gps or dps
\* is malformed (no numeric string) or missing
FieldFailure(raw) ==
    /\ raw.json = "object"
    /\ DeserializeU64(raw.blockNumber)[1] = "num"
    /\ ~WellFormed(raw)

\* What the claim expects of them: 0.0 for the affected field, the payload's values elsewhere
DefaultedValuesOf(raw) ==
    CASE raw = PayloadMalformedDps -> Some(10, Num(15), Num(32), Num(0))
      [] raw = PayloadMissingDps -> Some(10, Num(15), Num(32), Num(0))
      [] raw = PayloadNumberTps -> Some(10, Num(0), Num(32), Num(1))

\* C6: a matching update whose payload has a malformed or missing tps, gps or dps leaves
\* the entity with Metrics present, 0.0 in the affected field and the payload's values in
\* the others, and main goes on without error. (The code drops the whole payload when a
\* field is missing or is no JSON string: Metrics becomes absent.)
C6_FieldFailureDefaultsOnlyThatField ==
    [][(MatchingUpdate /\ FieldFailure(event.data)) =>
          /\ DataOf(networks', Target) = DefaultedValuesOf(event.data)
          /\ result' = "none"
      ]_vars

\* C7: an entity has Metrics exactly when a matching event has been applied to it.
\* (A matching event whose payload fails to deserialize sets Metrics to absent.)
C7_MetricsPresentIffMatched ==
    \A i \in 1..Len(networks) : networks[i].data.some <=> networks[i].label \in seen

\* C8: the cursor index starts at 0, stays within [0, L-1] for a registry of length
\* L >= 1 and stays 0 for an empty registry.
C8_CursorBounds ==
    /\ selected = 0
    /\ [](/\ selected \in Nat
          /\ Len(networks) >= 1 => selected <= Len(networks) - 1
          /\ Len(networks) = 0 => selected = 0)

\* C8 witness: the cursor stands on the last row of a registry of two or more entities,
\* after updates and a strategy change.
C8_Witness ==
    /\ Len(networks) >= 2
    /\ selected = Len(networks) - 1
    /\ SomeData(networks)
    /\ sorting_strategy # "Gps"

\* C9: on a non-empty registry the Up key sets index to max(0, index - 1) and the Down
\* key sets it to min(len - 1, index + 1).
C9_MoveUpDown ==
    [][/\ (PollKey("Up") /\ Len(networks) >= 1) => selected' = Max(0, selected - 1)
       /\ (PollKey("Down") /\ Len(networks) >= 1) =>
              selected' = Min(Len(networks) - 1, selected + 1)
      ]_vars

\* C9 witness: the cursor has moved to a row that is neither the first nor the last.
C9_Witness ==
    /\ pc = "read"
    /\ Len(networks) >= 3
    /\ selected >= 1
    /\ selected < Len(networks) - 1

\* C10: every step keeps the relative order of any two entities whose metric values under
\* the strategy in force after the step are equal (absent Metrics counting as 0.0).
C10_StableSort ==
    [][\A i, j \in 1..Len(networks') :
          (/\ i < j
           /\ F32Eq(SortKey(networks'[i], sorting_strategy'),
                    SortKey(networks'[j], sorting_strategy')))
          => PosOf(networks, networks'[i].label) < PosOf(networks, networks'[j].label)
      ]_vars

\* C10 witness: a re-sort has left two entities with Metrics and equal keys in an order
\* that is not the load order, while a third entity has another key.
C10_Witness ==
    /\ pc = "render"
    /\ \E i, j, k \in 1..Len(networks) :
          /\ i < j
          /\ networks[i].data.some
          /\ networks[j].data.some
          /\ networks[i].label > networks[j].label
          /\ F32Eq(SortKey(networks[i], sorting_strategy), SortKey(networks[j], sorting_strategy))
          /\ ~F32Eq(SortKey(networks[k], sorting_strategy), SortKey(networks[i], sorting_strategy))

\* Adjacent pairs in descending order of the strategy's metric (IEEE >=)
Descending(nets, strategy) ==
    \A i \in 1..(Len(nets) - 1) :
        F32Ge(SortKey(nets[i], strategy), SortKey(nets[i + 1], strategy))

\* The step handles one of the strategy keys
StrategyKeyStep == \E key \in {"g", "t", "k"} : PollKey(key)

\* The loop is Running: main is inside the `while let`
Running == pc \in {"read", "update", "render", "poll"}

\* Same entities, each with its identifier and Metrics, possibly in another order
SameEntities ==
    /\ Len(networks') = Len(networks)
    /\ {networks'[i] : i \in 1..Len(networks')} = {networks[i] : i \in 1..Len(networks)}

\* C11: a key g, t or k sets the strategy to Gps, Tps or Dps and, in the same step and
\* before the next stream read, leaves the registry in descending order of the newly
\* selected metric. (With a NaN metric the re-sort does not order the sequence: C3.)
C11_StrategyKeyResortsAtOnce ==
    [][/\ PollKey("g") => sorting_strategy' = "Gps"
       /\ PollKey("t") => sorting_strategy' = "Tps"
       /\ PollKey("k") => sorting_strategy' = "Dps"
       /\ StrategyKeyStep => (pc' = "read" /\ Descending(networks', sorting_strategy'))
      ]_vars

\* C12: update_networks and the strategy keys, re-sort included, leave the cursor index
\* unchanged (so the entity at the index may change).
C12_CursorIsPositional ==
    [][((pc = "update" /\ pc' = "render") \/ StrategyKeyStep) => selected' = selected]_vars

\* C12 witness: the cursor was moved to the second row, then the only update applied so
\* far moved the second network of the load to the first row: the cursor index is still 1
\* and now stands on the first network of the load.
C12_Witness ==
    /\ pc = "render"
    /\ selected = 1
    /\ seen = {2}
    /\ Len(networks) >= 2
    /\ networks[1].label = 2
    /\ networks[2].label = 1

\* C13: when a stream read has failed, main returns an error. (main returns Ok(()) after
\* terminal.exit().)
C13_StreamErrorIsReturned ==
    (pc = "done" /\ event.kind = "err") => result = "Err"

\* C14 as claimed: the loop is left only by the quit key or by stream end/error.
C14_LeftOnlyByQuitOrStream ==
    [][(Running /\ ~Running') =>
          \/ (pc = "poll" /\ pc' = "exit")
          \/ (pc = "read" /\ event'.kind \in {"end", "err"})
      ]_vars

\* C14 amended: the loop is left only by the quit key, by stream end/error, or by a
\* failure of the terminal draw or of the input poll/read (main returns that error); the
\* quit key leaves it in that very step; and once left, it is never entered again.
C14_LeftOnlyByQuitStreamOrTerminalFailure ==
    [][/\ (Running /\ ~Running') =>
             \/ (pc = "poll" /\ pc' = "exit" /\ result' = "none")
             \/ (pc = "read" /\ pc' = "exit" /\ event'.kind \in {"end", "err"})
             \/ (pc \in {"render", "poll"} /\ pc' = "done" /\ result' = "Err")
       /\ PollQuit => pc' = "exit"
       /\ ~Running => ~Running'
      ]_vars

\* C14 witness: the quit key has ended a loop that took updates, and main has returned.
C14_Witness ==
    /\ pc = "done"
    /\ result = "Ok"
    /\ event.kind = "event"
    /\ SomeData(networks)

\* C15: a poll step is followed by the next stream read, never by another poll; no key
\* changes an entity's identifier or Metrics; Up and Down change only the cursor, by at
\* most one row; g, t, k leave the cursor; an unbound key changes nothing.
C15_KeysChangeOnlyTheirPart ==
    [][/\ pc = "poll" => (pc' # "poll" /\ SameEntities)
       /\ (PollKey("Up") \/ PollKey("Down")) =>
             /\ networks' = networks
             /\ sorting_strategy' = sorting_strategy
             /\ selected' - selected \in {-1, 0, 1}
       /\ StrategyKeyStep => selected' = selected
       /\ PollKey("x") =>
             (networks' = networks /\ selected' = selected /\ sorting_strategy' = sorting_strategy)
      ]_vars

\* C15 witness: keys have moved the cursor and selected a strategy under which the order
\* differs from the Gps order.
C15_Witness ==
    /\ pc = "read"
    /\ selected >= 1
    /\ sorting_strategy = "Tps"
    /\ SomeData(networks)
    /\ sort_networks(networks, "Gps") # networks

\* C16: a render request changes neither the sequence, nor any Metrics, nor the cursor
\* index, nor the strategy.
C16_RenderIsReadOnly ==
    [][pc = "render" => (networks' = networks /\ selected' = selected
                          /\ sorting_strategy' = sorting_strategy)]_vars

\* C16 witness: a render has just been done of a re-ordered registry with Metrics, the
\* cursor not on the first row.
C16_Witness ==
    /\ pc = "poll"
    /\ event.kind = "event"
    /\ selected >= 1
    /\ SomeData(networks)
    /\ networks # loaded

\* C17: update and re-sort of an event come before its render, the render before the
\* input poll; so at every render the registry is in descending order of the active
\* strategy's metric and holds the event's merge. (Not in descending order with a NaN
\* metric: C3.)
C17_RenderAfterUpdateAndSort ==
    /\ pc \in {"update", "render"} => event.kind = "event"
    /\ pc = "render" =>
          /\ Descending(networks, sorting_strategy)
          /\ \A i \in 1..Len(networks) :
                (networks[i].name = event.event_type /\ WellFormed(event.data)) =>
                   \E j \in 1..Len(networks) :
                      /\ networks[j].name = event.event_type
                      /\ networks[j].data = ValuesOf(event.data)

\* C18: while the stream read has not returned no key is handled (cursor, strategy and
\* order stay, a pressed quit key stays pending, the loop is left only by a read error);
\* and, the stream read returning, a pressed quit key leads to the end of the loop.
C18_ReadThenPoll ==
    /\ [][pc = "read" =>
             /\ networks' = networks
             /\ selected' = selected
             /\ sorting_strategy' = sorting_strategy
             /\ quit_pressed => quit_pressed'
             /\ pc' = "exit" => event'.kind = "err"
         ]_vars
    /\ (quit_pressed ~> pc \in {"exit", "done"})

\* C18 witness: the quit key is pressed and waits while the stream read is pending.
C18_Witness ==
    /\ quit_pressed
    /\ pc = "read"
    /\ SomeData(networks)

\* C19: a stream item that is a comment is followed by the input poll, with no update,
\* re-sort or render, and leaves registry, order, cursor and strategy unchanged.
C19_CommentOnlyPolls ==
    [][(pc = "read" /\ event'.kind = "comment") =>
          /\ pc' = "poll"
          /\ networks' = networks
          /\ selected' = selected
          /\ sorting_strategy' = sorting_strategy
      ]_vars

\* C19 witness: a comment was read in a loop that took updates before, and the input is
\* polled next.
C19_Witness ==
    /\ pc = "poll"
    /\ event.kind = "comment"
    /\ SomeData(networks)
    /\ networks # loaded

\* C20: update_networks gives the payload's Metrics to the first entity in the current
\* order whose identifier equals the event's, and leaves the Metrics of every other
\* entity, same identifier or not, as they were.
C20_OnlyFirstMatchUpdated ==
    [][(pc = "update" /\ pc' = "render") =>
          \A i \in 1..Len(networks) :
             IF /\ networks[i].name = event.event_type
                /\ \A j \in 1..(i - 1) : networks[j].name # event.event_type
             THEN WellFormed(event.data) =>
                     DataOf(networks', networks[i].label) = ValuesOf(event.data)
             ELSE DataOf(networks', networks[i].label) = networks[i].data
      ]_vars

\* C20 witness: two entities carry the event's identifier, each was the first in order at
\* some time (both took an update), and an update has just been applied to one of them.
C20_Witness ==
    /\ pc = "render"
    /\ WellFormed(event.data)
    /\ \E i, j \in 1..Len(networks) :
          /\ i # j
          /\ networks[i].name = event.event_type
          /\ networks[j].name = event.event_type
          /\ {networks[i].label, networks[j].label} \subseteq seen
          /\ networks[i].data = ValuesOf(event.data)
          /\ networks[j].data.some
          /\ networks[j].data # networks[i].data

====
